---------------------------- MODULE Spec2Model ----------------------------
(***************************************************************************)
(* A model of pyvideochat's framed streaming transport                     *)
(* (src/pyvideochat/hosting.py): the length-prefixed message codec of      *)
(* _Socket.send / _Socket.receive, the connection establishment of         *)
(* Server.connect / Client.connect and the pump loops Server.start /       *)
(* Client.start.                                                           *)
(*                                                                         *)
(* The two endpoints are "server" and "client".  Bytes travel over one TCP *)
(* connection, modelled as one FIFO byte sequence per direction; a recv    *)
(* returns any non-empty prefix of what is queued, at most the number of   *)
(* bytes requested.                                                        *)
(***************************************************************************)
EXTENDS Integers, Sequences, FiniteSets, TLC

Endpoints == {"server", "client"}

Peer(e) == IF e = "server" THEN "client" ELSE "server"

---------------------------------------------------------------------------
(* Bounds of the model *)

\* Send calls one endpoint makes in the framing scenario.
MaxSends == 2
\* Sends of one endpoint's pump loop that the history keeps.
MaxPumpSends == 1
\* Depth of nested connect frames the interpreter allows (Python's recursion
\* limit, scaled down).
MaxDepth == 3
\* Top-level connect calls the application makes on one endpoint.
MaxConnectCalls == 2
\* Saturation value of a decoded length: larger than every byte count the
\* model can put on a connection.
SizeCap == 60

---------------------------------------------------------------------------
(* Values *)

NoneVal == [tag |-> "None"]

Pair(ok, fr) == [tag |-> "tuple", ok |-> ok, frame |-> fr]

\* Resolutions: the default send resolution (640, 480), the camera's native
\* resolution, and the 'fullscreen' sentinel of video.py.
Res640 == 3
ResCam == 4
FULLSCREEN == 5

Pixels == {1, 2}

MkFrame(r, p) == [tag |-> "frame", res |-> r, pix |-> p]

\* What the camera can deliver to video.read().
CamFrames == {MkFrame(ResCam, <<1>>), MkFrame(ResCam, <<2, 1>>)}

\* Video.resize: cv2.resize to dsize, the frame itself when cv2.resize raises
\* (dsize = 'fullscreen' is not a size).
Resize(frame, resolution) ==
    IF resolution = FULLSCREEN THEN frame ELSE [frame EXCEPT !.res = resolution]

---------------------------------------------------------------------------
(* The codec *)

\* struct.calcsize("Q")
HeaderLen == 8

Base == 256

\* struct.pack("Q", n): 8 bytes, least significant first (native order of a
\* little-endian host).
RECURSIVE PackFrom(_, _)
PackFrom(n, k) == IF k = 0 THEN <<>> ELSE <<n % Base>> \o PackFrom(n \div Base, k - 1)

Pack(n) == PackFrom(n, HeaderLen)

\* A decoded length, saturated at SizeCap.
Saturated(n) == IF n >= SizeCap THEN SizeCap ELSE n

\* struct.unpack("Q", b)[0] for Len(b) = HeaderLen, saturated at SizeCap:
\* the bytes from the most significant (the last) down to the i-th, folded
\* into acc.
RECURSIVE UnpackFrom(_, _, _)
UnpackFrom(b, i, acc) ==
    IF i = 0 THEN acc ELSE UnpackFrom(b, i - 1, Saturated(acc * Base + b[i]))

Unpack(b) == UnpackFrom(b, Len(b), 0)

\* Opcodes of the pickle stream: PROTO opens it, STOP ends it.
PROTO == 128
STOP == 46

\* pickle.dumps(frame)
Dumps(frame) == <<PROTO, frame.res>> \o frame.pix \o <<STOP>>

\* Index of the first STOP opcode of b, 0 when there is none.
FirstStop(b) ==
    IF \E i \in 1..Len(b) : b[i] = STOP
    THEN CHOOSE i \in 1..Len(b) : b[i] = STOP /\ \A j \in 1..(i - 1) : b[j] # STOP
    ELSE 0

\* pickle.loads succeeds on b: a PROTO opcode, a resolution, pixels, and the
\* STOP opcode (bytes after STOP are ignored, as pickle.loads ignores them).
Loadable(b) ==
    LET s == FirstStop(b)
    IN  /\ s >= 4
        /\ b[1] = PROTO
        /\ b[2] \in {Res640, ResCam, FULLSCREEN}
        /\ \A j \in 3..(s - 1) : b[j] \in Pixels

\* pickle.loads(b) when it succeeds.
Loads(b) == MkFrame(b[2], SubSeq(b, 3, FirstStop(b) - 1))

\* The message send() writes for a frame: line 68.
Message(frame) == Pack(Len(Dumps(frame))) \o Dumps(frame)

\* data[:n] and data[n:]
Take(s, n) == SubSeq(s, 1, IF n < Len(s) THEN n ELSE Len(s))
Drop(s, n) == SubSeq(s, (IF n < Len(s) THEN n ELSE Len(s)) + 1, Len(s))

Min(a, b) == IF a < b THEN a ELSE b


---------------------------------------------------------------------------
(* State *)

VARIABLES
    role,               \* what the application does with the endpoint
    capture_video,      \* _Socket.capture_video (self.video exists iff set)
    screen_resolution,  \* _Socket.screen_resolution
    alive,              \* the endpoint's process runs and holds its sockets
    exc,                \* the exception that escaped the endpoint's last call
    pc,                 \* position of the endpoint's thread of control
    caller,             \* who called send/receive: the application or start()
    show,               \* receive()'s show argument
    data,               \* receive()'s local data
    msg_size,           \* receive()'s local msg_size
    ret,                \* value returned by the last finished call
    last,               \* the call that finished last ("none" during a call)
    consumed,           \* bytes the current receive() took from its socket
    nrecv,              \* receive() calls of the application that have finished
    inbox,              \* bytes queued for the endpoint on the connection
    eof,                \* the peer's end of the connection is closed
    sent,               \* per endpoint, what each of its sendall calls wrote
    sock_timeout,       \* timeout set on self.socket (0: none)
    timed_out,          \* _Socket.timed_out
    conn,               \* client_socket is a connected socket
    listener,           \* state of the server's listening socket
    backlog,            \* connections completed by the kernel, not yet accepted
    timeout_arg,        \* connect()'s timeout argument
    depth,              \* nested connect() frames below the application's call
    attempts,           \* accept/dial attempts of the current connect call
    last_attempt,       \* how the latest of them ended
    sleeps,             \* time.sleep(1) calls of the current connect call
    ncalls,             \* connect calls the application has made
    ended_timed_out,    \* a connect call of the endpoint has ended timed out
    closes,             \* per endpoint, the close() calls made and how each ended
    balance             \* start() loop: messages sent less frames received

config == <<role, capture_video, screen_resolution>>
recvv  == <<show, data, msg_size, consumed, nrecv>>
netv   == <<inbox, eof, sent, balance>>
connv  == <<sock_timeout, timed_out, conn, listener, backlog, timeout_arg,
            depth, attempts, last_attempt, sleeps, ncalls, ended_timed_out,
            closes>>
vars   == <<config, alive, exc, pc, caller, ret, last, recvv, netv, connv>>

\* The timeout value connect() is called with in polling mode.
Timeout == 5

\* The timeout in force on the socket send/receive use.  The client's
\* client_socket is self.socket (line 235), which keeps the timeout connect
\* set on it; the server's is the socket accept returned, which blocks.
IoTimeout(e) == IF e = "client" THEN sock_timeout[e] ELSE 0

\* Where control goes when send()/receive() returns.
AfterSend_SendAgain(e) == IF caller[e] = "app" THEN "idle" ELSE "p_send"
AfterSend(e) == IF caller[e] = "app" THEN "idle" ELSE
                IF e = "server" THEN "p_test" ELSE "p_recv"
AfterRecv(e) == IF caller[e] = "app" THEN "a_unpack" ELSE "p_unpack"

---------------------------------------------------------------------------
(* _Socket.send, lines 41-74 *)

\* Lines 73-74: what send() does with an exception of its try block.  The
\* value is the position control continues at.
SendExcept_Reraise(e, next) == "raised"
SendExcept(e, next) == next

\* sendall(message) on e's client_socket writes n bytes of the message.
Delivered(e, message, n) ==
    IF alive[Peer(e)]
    THEN [inbox EXCEPT ![Peer(e)] = @ \o Take(message, n)]
    ELSE inbox

\* History: the frame a sendall call was given, the bytes it wrote and
\* whether it raised.  The pump loops keep the first MaxPumpSends entries.
Logged(e, frame, n, raised) ==
    IF role[e] = "pump" /\ Len(sent[e]) >= MaxPumpSends
    THEN sent
    ELSE [sent EXCEPT ![e] = Append(@, [frame |-> frame, n |-> n, raised |-> raised])]

\* The whole of send(frame, resolution=(640, 480), show=FALSE), called with
\* frame (NoneVal for no frame); control continues at next.
SendBody(e, frame, next) ==
    /\ \E cam \in CamFrames \cup {NoneVal} :
         LET capturing == IF capture_video[e] /\ frame = NoneVal THEN cam # NoneVal
                          ELSE frame # NoneVal
             f         == IF frame = NoneVal THEN cam ELSE frame
         IN  IF ~capturing
             THEN \* lines 62-64: nothing to send
                  /\ pc' = [pc EXCEPT ![e] = next]
                  /\ UNCHANGED <<inbox, sent, balance>>
             ELSE LET resized == Resize(f, Res640)
                      message == Message(resized)
                  IN  /\ balance' = [balance EXCEPT ![e] =
                                        IF role[e] = "pump" THEN @ + 1 ELSE @]
                      /\ \/ \* sendall writes the whole message
                            /\ conn[e]
                            /\ inbox' = Delivered(e, message, Len(message))
                            /\ sent' = Logged(e, resized, Len(message), FALSE)
                            /\ pc' = [pc EXCEPT ![e] = next]
                         \/ \* no connected socket: sendall (or the lookup of
                            \* client_socket) raises before a byte is written
                            /\ ~conn[e]
                            /\ UNCHANGED inbox
                            /\ sent' = Logged(e, resized, 0, TRUE)
                            /\ pc' = [pc EXCEPT ![e] = SendExcept(e, next)]
                         \/ \* the peer is gone: sendall raises (broken pipe,
                            \* connection reset)
                            /\ conn[e] /\ ~alive[Peer(e)]
                            /\ UNCHANGED inbox
                            /\ sent' = Logged(e, resized, 0, TRUE)
                            /\ pc' = [pc EXCEPT ![e] = SendExcept(e, next)]
                         \/ \* the socket's timeout expires part-way
                            /\ conn[e] /\ IoTimeout(e) > 0
                            /\ \E n \in 0..(Len(message) - 1) :
                                 /\ inbox' = Delivered(e, message, n)
                                 /\ sent' = Logged(e, resized, n, TRUE)
                            /\ pc' = [pc EXCEPT ![e] = SendExcept(e, next)]
    /\ ret' = [ret EXCEPT ![e] = NoneVal]
    /\ last' = [last EXCEPT ![e] = "send"]
    /\ exc' = [exc EXCEPT ![e] = IF pc'[e] = "raised" THEN "SendError" ELSE @]
    /\ UNCHANGED <<config, alive, recvv, eof, connv>>

---------------------------------------------------------------------------
(* _Socket.receive, lines 76-113 *)

\* receive() calls the application makes on one endpoint.
MaxRecvs == 3

\* Lines 112-113: the value receive() returns when its try block raised.
\* `except: pass` falls off the end of the function, which returns None.
RecvExcept == NoneVal

RecvDone(e, value) ==
    /\ ret' = [ret EXCEPT ![e] = value]
    /\ pc' = [pc EXCEPT ![e] = AfterRecv(e)]
    /\ last' = [last EXCEPT ![e] = "receive"]
    /\ nrecv' = [nrecv EXCEPT ![e] = IF caller[e] = "app" THEN @ + 1 ELSE @]
    /\ balance' = [balance EXCEPT ![e] =
                      IF caller[e] = "start" /\ value # RecvExcept THEN @ - 1 ELSE @]

\* Line 90-91: entry of receive(show), called by who.
RecvCall(e, sh, who) ==
    /\ pc' = [pc EXCEPT ![e] = "r_hdr"]
    /\ caller' = [caller EXCEPT ![e] = who]
    /\ show' = [show EXCEPT ![e] = sh]
    /\ data' = [data EXCEPT ![e] = <<>>]
    /\ msg_size' = [msg_size EXCEPT ![e] = 0]
    /\ consumed' = [consumed EXCEPT ![e] = 0]
    /\ last' = [last EXCEPT ![e] = "none"]
    /\ UNCHANGED <<config, alive, exc, ret, nrecv, netv, connv>>

\* Lines 93-97: one iteration of `while len(data) < payload_size`.
RecvHeader(e) ==
    /\ pc[e] = "r_hdr"
    /\ alive[e]
    /\ \/ \* recv raises: there is no connected socket
          /\ ~conn[e]
          /\ RecvDone(e, RecvExcept)
          /\ UNCHANGED <<data, consumed, inbox>>
       \/ \* recv(payload_size) returns between 1 and payload_size bytes
          /\ conn[e] /\ inbox[e] # <<>>
          /\ \E k \in 1..Min(HeaderLen, Len(inbox[e])) :
               /\ data' = [data EXCEPT ![e] = @ \o Take(inbox[e], k)]
               /\ inbox' = [inbox EXCEPT ![e] = Drop(@, k)]
               /\ consumed' = [consumed EXCEPT ![e] = @ + k]
               /\ pc' = [pc EXCEPT ![e] =
                           IF Len(data'[e]) < HeaderLen THEN "r_hdr" ELSE "r_unpack"]
          /\ UNCHANGED <<ret, last, nrecv, balance>>
       \/ \* recv returns b"": the peer closed; `if not packet: break`
          /\ conn[e] /\ inbox[e] = <<>> /\ eof[e]
          /\ pc' = [pc EXCEPT ![e] = "r_unpack"]
          /\ UNCHANGED <<data, consumed, inbox, ret, last, nrecv, balance>>
       \/ \* recv raises socket.timeout
          /\ conn[e] /\ inbox[e] = <<>> /\ ~eof[e] /\ IoTimeout(e) > 0
          /\ RecvDone(e, RecvExcept)
          /\ UNCHANGED <<data, consumed, inbox>>
    /\ UNCHANGED <<config, alive, exc, caller, show, msg_size, eof, sent, connv>>

\* Line 99: what receive() keeps of data once the prefix is split off: the
\* bytes the header loop read beyond the prefix.
HeaderRest_Discard(d) == <<>>
HeaderRest(d) == Drop(d, HeaderLen)

\* Lines 98-100: split off the prefix and unpack it (struct.error when it is
\* not payload_size bytes long).
RecvUnpack(e) ==
    /\ pc[e] = "r_unpack"
    /\ alive[e]
    /\ IF Len(data[e]) < HeaderLen
       THEN /\ RecvDone(e, RecvExcept)
            /\ UNCHANGED <<data, msg_size>>
       ELSE /\ msg_size' = [msg_size EXCEPT ![e] = Unpack(Take(data[e], HeaderLen))]
            /\ data' = [data EXCEPT ![e] = HeaderRest(@)]
            /\ pc' = [pc EXCEPT ![e] =
                        IF Len(data'[e]) < msg_size'[e] THEN "r_body" ELSE "r_loads"]
            /\ UNCHANGED <<ret, last, nrecv, balance>>
    /\ UNCHANGED <<config, alive, exc, caller, show, consumed, inbox, eof, sent,
                   connv>>

\* Line 103-104: whether the payload loop breaks after a recv that left data
\* as it is.
BodyBreak(d) == d = <<>>

\* Lines 101-104: one iteration of `while len(data) < msg_size`.
RecvBody(e) ==
    /\ pc[e] = "r_body"
    /\ alive[e]
    /\ \/ \* recv(msg_size) returns between 1 and msg_size bytes
          /\ inbox[e] # <<>>
          /\ \E k \in 1..Min(msg_size[e], Len(inbox[e])) :
               /\ data' = [data EXCEPT ![e] = @ \o Take(inbox[e], k)]
               /\ inbox' = [inbox EXCEPT ![e] = Drop(@, k)]
               /\ consumed' = [consumed EXCEPT ![e] = @ + k]
               /\ pc' = [pc EXCEPT ![e] =
                           IF Len(data'[e]) < msg_size[e] THEN "r_body" ELSE "r_loads"]
          /\ UNCHANGED <<ret, last, nrecv, balance>>
       \/ \* recv returns b"": data is what it was; the loop ends only if
          \* data is empty
          /\ inbox[e] = <<>> /\ eof[e]
          /\ pc' = [pc EXCEPT ![e] = IF BodyBreak(data[e]) THEN "r_loads" ELSE "r_body"]
          /\ UNCHANGED <<data, consumed, inbox, ret, last, nrecv, balance>>
       \/ \* recv raises socket.timeout
          /\ inbox[e] = <<>> /\ ~eof[e] /\ IoTimeout(e) > 0
          /\ RecvDone(e, RecvExcept)
          /\ UNCHANGED <<data, consumed, inbox>>
    /\ UNCHANGED <<config, alive, exc, caller, show, msg_size, eof, sent, connv>>

\* Lines 105-111: cut the payload, unpickle it, show it, return it.
RecvLoads(e) ==
    /\ pc[e] = "r_loads"
    /\ alive[e]
    /\ LET frame_data == Take(data[e], msg_size[e])
       IN  /\ data' = [data EXCEPT ![e] = Drop(@, msg_size[e])]
           /\ IF ~Loadable(frame_data)
              THEN RecvDone(e, RecvExcept)                \* pickle.loads raises
              ELSE IF show[e] /\ ~capture_video[e]
              THEN RecvDone(e, RecvExcept)                \* no self.video
              ELSE IF show[e]
              THEN RecvDone(e, Pair(TRUE, Resize(Loads(frame_data),
                                                 screen_resolution[e])))
              ELSE RecvDone(e, Pair(TRUE, Loads(frame_data)))
    /\ UNCHANGED <<config, alive, exc, caller, show, msg_size, consumed, inbox,
                   eof, sent, connv>>

Receive(e) == RecvHeader(e) \/ RecvUnpack(e) \/ RecvBody(e) \/ RecvLoads(e)

InReceive(e) == pc[e] \in {"r_hdr", "r_unpack", "r_body", "r_loads"}


---------------------------------------------------------------------------
(* Server.connect, lines 165-201, and Client.connect, lines 240-275 *)

TrueVal == [tag |-> "bool", v |-> TRUE]

\* Lines 176-180 and 253-257: blocking is decided by the timeout argument.
Blocking(e) == timeout_arg[e] = 0

\* Lines 196-201 and 270-275: after a failed attempt, whether connect calls
\* itself again (after time.sleep(1)) instead of returning.
RetryAfterFailure_Always(e) == TRUE
RetryAfterFailure(e) == Blocking(e)

\* connect() returns to the application (every nested frame returns).
ConnectReturn(e, value) ==
    /\ pc' = [pc EXCEPT ![e] = "idle"]
    /\ ret' = [ret EXCEPT ![e] = value]
    /\ last' = [last EXCEPT ![e] = "connect"]
    /\ depth' = [depth EXCEPT ![e] = 0]

\* The except branch of connect: lines 196-201 and 270-275.
ConnectFailed(e) ==
    /\ timed_out' = [timed_out EXCEPT ![e] = TRUE]
    /\ IF RetryAfterFailure(e)
       THEN /\ pc' = [pc EXCEPT ![e] = "c_sleep"]
            /\ UNCHANGED <<ret, last, depth, ended_timed_out>>
       ELSE /\ ConnectReturn(e, NoneVal)
            /\ ended_timed_out' = [ended_timed_out EXCEPT ![e] = TRUE]

\* The application calls connect(timeout = t).  In the happy-path scenario
\* (role "happy") it calls connect(timeout = 0), once.
AppConnect(e, t) ==
    /\ role[e] \in {"setup", "happy", "closing"}
    /\ role[e] = "happy" => t = 0 /\ ncalls[e] = 0
    /\ pc[e] = "idle" /\ alive[e]
    /\ ncalls[e] < MaxConnectCalls
    /\ ncalls' = [ncalls EXCEPT ![e] = @ + 1]
    /\ timeout_arg' = [timeout_arg EXCEPT ![e] = t]
    /\ depth' = [depth EXCEPT ![e] = 0]
    /\ attempts' = [attempts EXCEPT ![e] = 0]
    /\ sleeps' = [sleeps EXCEPT ![e] = 0]
    /\ pc' = [pc EXCEPT ![e] = "c_begin"]
    /\ last' = [last EXCEPT ![e] = "none"]
    /\ last_attempt' = [last_attempt EXCEPT ![e] = "none"]
    /\ UNCHANGED <<config, alive, exc, caller, ret, recvv, netv, sock_timeout,
                   timed_out, conn, listener, backlog, ended_timed_out, closes>>

\* self.socket has been closed by close(), line 133.
SocketClosed(e) == closes[e] # <<>>

\* Line 181: Server.connect binds unless timed_out is set.
ServerBinds_Always(e) == TRUE
ServerBinds(e) == ~timed_out[e]

\* Lines 176-190 (server: settimeout, bind unless timed_out, listen) and
\* lines 253-263 (client: settimeout).
ConnectBegin(e) ==
    /\ pc[e] = "c_begin"
    /\ alive[e]
    /\ sock_timeout' = [sock_timeout EXCEPT ![e] =
                          IF Blocking(e) \/ SocketClosed(e) THEN @ ELSE timeout_arg[e]]
    /\ IF SocketClosed(e) /\ (~Blocking(e) \/ (e = "server" /\ ~ServerBinds(e)))
       THEN \* settimeout (lines 180, 257) or listen (line 190) on a closed
            \* socket raises, outside every try
            /\ pc' = [pc EXCEPT ![e] = "raised"]
            /\ exc' = [exc EXCEPT ![e] = "OSError"]
            /\ UNCHANGED listener
       ELSE IF e = "client"
       THEN /\ pc' = [pc EXCEPT ![e] = "c_dial"]
            /\ UNCHANGED <<listener, exc>>
       ELSE IF ~ServerBinds(e)
       THEN \* bind is skipped; listen(5)
            /\ listener' = "listening"
            /\ pc' = [pc EXCEPT ![e] = "c_accept"]
            /\ UNCHANGED exc
       ELSE \/ \* bind succeeds on the fresh socket; listen(5)
               /\ listener = "fresh"
               /\ listener' = "listening"
               /\ pc' = [pc EXCEPT ![e] = "c_accept"]
               /\ UNCHANGED exc
            \/ \* bind raises (address in use, or the socket is bound
               \* already); line 188 re-raises
               /\ pc' = [pc EXCEPT ![e] = "raised"]
               /\ exc' = [exc EXCEPT ![e] = "OSError"]
               /\ UNCHANGED listener
    /\ UNCHANGED <<config, alive, caller, ret, last, recvv, netv, timed_out, conn,
                   backlog, timeout_arg, depth, attempts, last_attempt, sleeps,
                   ncalls, ended_timed_out, closes>>

\* Lines 191-201: accept on the listening socket.
ServerAccept ==
    /\ pc["server"] = "c_accept"
    /\ alive["server"]
    /\ \/ \* a client is waiting: accept returns its socket
          /\ backlog > 0
          /\ backlog' = backlog - 1
          /\ conn' = [conn EXCEPT !["server"] = TRUE]
          /\ ConnectReturn("server", NoneVal)
          /\ last_attempt' = [last_attempt EXCEPT !["server"] = "ok"]
          /\ UNCHANGED <<timed_out, ended_timed_out>>
       \/ \* the listening socket's timeout expires
          /\ backlog = 0 /\ sock_timeout["server"] > 0
          /\ ConnectFailed("server")
          /\ last_attempt' = [last_attempt EXCEPT !["server"] = "failed"]
          /\ UNCHANGED <<backlog, conn>>
    /\ attempts' = [attempts EXCEPT !["server"] = @ + 1]
    /\ UNCHANGED <<config, alive, exc, caller, recvv, netv, sock_timeout,
                   listener, timeout_arg, sleeps, ncalls, closes>>

\* Lines 264-275: connect the client socket to the server's address.
ClientDial ==
    /\ pc["client"] = "c_dial"
    /\ alive["client"]
    /\ \/ \* the server listens: the kernel completes the connection
          /\ listener = "listening" /\ ~conn["client"] /\ ~SocketClosed("client")
          /\ backlog' = backlog + 1
          /\ conn' = [conn EXCEPT !["client"] = TRUE]
          /\ ConnectReturn("client", IF depth["client"] = 0 THEN TrueVal ELSE NoneVal)
          /\ last_attempt' = [last_attempt EXCEPT !["client"] = "ok"]
          /\ UNCHANGED <<timed_out, ended_timed_out>>
       \/ \* the socket is connected already and has a timeout: the call
          \* can return at once, reporting the connection it has
          /\ conn["client"] /\ sock_timeout["client"] > 0
          /\ ConnectReturn("client", IF depth["client"] = 0 THEN TrueVal ELSE NoneVal)
          /\ last_attempt' = [last_attempt EXCEPT !["client"] = "ok"]
          /\ UNCHANGED <<timed_out, ended_timed_out, backlog, conn>>
       \/ \* refused (nobody listens), or the socket is connected already
          \* or closed
          /\ listener # "listening" \/ conn["client"] \/ SocketClosed("client")
          /\ ConnectFailed("client")
          /\ last_attempt' = [last_attempt EXCEPT !["client"] = "failed"]
          /\ UNCHANGED <<backlog, conn>>
    /\ attempts' = [attempts EXCEPT !["client"] = @ + 1]
    /\ UNCHANGED <<config, alive, exc, caller, recvv, netv, sock_timeout,
                   listener, timeout_arg, sleeps, ncalls, closes>>

\* Lines 200-201 and 274-275: time.sleep(1), then connect calls itself.  The
\* interpreter raises RecursionError when the frames nest too deep; the call
\* is made in an except block, so the error leaves every frame.
ConnectSleep(e) ==
    /\ pc[e] = "c_sleep"
    /\ alive[e]
    /\ sleeps' = [sleeps EXCEPT ![e] = @ + 1]
    /\ IF depth[e] < MaxDepth
       THEN /\ depth' = [depth EXCEPT ![e] = @ + 1]
            /\ pc' = [pc EXCEPT ![e] = "c_begin"]
            /\ UNCHANGED exc
       ELSE /\ pc' = [pc EXCEPT ![e] = "raised"]
            /\ exc' = [exc EXCEPT ![e] = "RecursionError"]
            /\ UNCHANGED depth
    /\ UNCHANGED <<config, alive, caller, ret, last, recvv, netv, sock_timeout,
                   timed_out, conn, listener, backlog, timeout_arg, attempts,
                   last_attempt, ncalls, ended_timed_out, closes>>

---------------------------------------------------------------------------
(* The application's calls of send and receive.  In the happy-path         *)
(* scenario the client's application runs connect(); send(frame) and the   *)
(* server's runs connect(); receive().                                     *)

AppSend(e, frame) ==
    /\ role[e] \in {"writer", "happy", "single"}
    /\ role[e] = "happy" => e = "client" /\ ncalls[e] = 1 /\ sent[e] = <<>>
    /\ role[e] = "single" => sent[e] = <<>>
    /\ pc[e] = "idle" /\ alive[e]
    /\ Len(sent[e]) < MaxSends
    /\ caller' = [caller EXCEPT ![e] = "app"]
    /\ SendBody(e, frame, "idle")

AppReceive(e, sh) ==
    /\ role[e] \in {"reader", "happy"}
    /\ role[e] = "happy" => e = "server" /\ ncalls[e] = 1 /\ nrecv[e] = 0
    /\ pc[e] = "idle" /\ alive[e]
    /\ nrecv[e] < MaxRecvs
    /\ RecvCall(e, sh, "app")

\* The application takes the value receive() returned.
AppUnpack(e) ==
    /\ pc[e] = "a_unpack"
    /\ alive[e]
    /\ pc' = [pc EXCEPT ![e] = "idle"]
    /\ UNCHANGED <<config, alive, exc, caller, ret, last, recvv, netv, connv>>

\* The endpoint's process ends: the application is done, dies of an escaped
\* exception, or is interrupted while it waits for bytes.  The system closes
\* its sockets.
Exit(e) ==
    /\ alive[e]
    /\ \/ pc[e] \in {"idle", "raised"}
       \/ pc[e] \in {"r_hdr", "r_body"} /\ inbox[e] = <<>>
    /\ alive' = [alive EXCEPT ![e] = FALSE]
    /\ pc' = [pc EXCEPT ![e] = "dead"]
    /\ conn' = [conn EXCEPT ![e] = FALSE]
    /\ inbox' = [inbox EXCEPT ![e] = <<>>]
    /\ eof' = [eof EXCEPT ![Peer(e)] = TRUE]
    /\ listener' = IF e = "server" THEN "closed" ELSE listener
    /\ backlog' = IF e = "server" THEN 0 ELSE backlog
    /\ UNCHANGED <<config, exc, caller, ret, last, recvv, sent, balance,
                   sock_timeout, timed_out, timeout_arg, depth, attempts,
                   last_attempt, sleeps, ncalls, ended_timed_out, closes>>

---------------------------------------------------------------------------
(* _Socket.close, lines 129-138 *)

\* close() calls the application makes on one endpoint.
MaxCloses == 2

\* Line 138: close() ends with _Logger.text(f"{self.socket_type} stopped!").
\* Nothing in the package assigns socket_type, so the lookup raises.
SocketTypeLookup == "AttributeError"

\* The whole of close(): self.socket.close() (line 133), Video.stop() in a
\* try, the log line.  self.socket is the server's listening socket and the
\* client's only socket; the socket the server accepted is left open.  The
\* application catches what the call raises and goes on.
AppClose(e) ==
    /\ role[e] = "closing"
    /\ pc[e] \in {"idle", "raised"} /\ alive[e]
    /\ Len(closes[e]) < MaxCloses
    /\ IF e = "server"
       THEN /\ listener' = "closed"
            /\ backlog' = 0
            /\ UNCHANGED <<conn, inbox>>
            \* a connection the kernel completed and nobody accepted is reset
            /\ eof' = IF backlog > 0 THEN [eof EXCEPT !["client"] = TRUE] ELSE eof
       ELSE /\ conn' = [conn EXCEPT ![e] = FALSE]
            /\ inbox' = [inbox EXCEPT ![e] = <<>>]
            /\ eof' = IF conn[e] THEN [eof EXCEPT !["server"] = TRUE] ELSE eof
            /\ UNCHANGED <<listener, backlog>>
    /\ closes' = [closes EXCEPT ![e] =
                    Append(@, [connected |-> conn[e],
                               in_a_row  |-> last[e] = "close",
                               raised    |-> SocketTypeLookup,
                               conn      |-> conn'[e],
                               socket    |-> "closed"])]
    /\ exc' = [exc EXCEPT ![e] = SocketTypeLookup]
    /\ ret' = [ret EXCEPT ![e] = NoneVal]
    /\ last' = [last EXCEPT ![e] = "close"]
    /\ UNCHANGED <<config, alive, pc, caller, recvv, sent, balance, sock_timeout,
                   timed_out, timeout_arg, depth, attempts, last_attempt, sleeps,
                   ncalls, ended_timed_out>>

---------------------------------------------------------------------------
(* Server.start, lines 203-210, and Client.start, lines 277-285 *)

\* _Socket.is_connected, lines 115-127: the truth value of self.client_socket.
\* A socket object is true, open or closed; the server has no client_socket
\* attribute before an accept succeeded.
IsConnected(e) == IF e = "server" /\ ~conn[e] THEN "AttributeError" ELSE "True"

AppStart(e) ==
    /\ role[e] = "pump"
    /\ pc[e] = "idle" /\ alive[e]
    /\ pc' = [pc EXCEPT ![e] = "p_test"]
    /\ caller' = [caller EXCEPT ![e] = "start"]
    /\ UNCHANGED <<config, alive, exc, ret, last, recvv, netv, connv>>

\* Lines 207 and 281: `while self.is_connected()`.
PumpTest(e) ==
    /\ pc[e] = "p_test"
    /\ alive[e]
    /\ IF IsConnected(e) = "True"
       THEN /\ pc' = [pc EXCEPT ![e] = IF e = "server" THEN "p_recv" ELSE "p_send"]
            /\ UNCHANGED exc
       ELSE IF IsConnected(e) = "False"
       THEN /\ pc' = [pc EXCEPT ![e] = "idle"]
            /\ UNCHANGED exc
       ELSE /\ pc' = [pc EXCEPT ![e] = "raised"]
            /\ exc' = [exc EXCEPT ![e] = IsConnected(e)]
    /\ UNCHANGED <<config, alive, caller, ret, last, recvv, netv, connv>>

\* Lines 210 and 282: self.send(show=False).
PumpSend(e) ==
    /\ pc[e] = "p_send"
    /\ alive[e]
    /\ UNCHANGED caller
    /\ SendBody(e, NoneVal, AfterSend(e))

\* Lines 208 and 283: the call self.receive(show=True).
PumpRecv(e) ==
    /\ pc[e] = "p_recv"
    /\ alive[e]
    /\ RecvCall(e, TRUE, "start")

\* Lines 208-209 and 283-285: `receiving, _ = <the value returned>` and the
\* test of receiving.  Unpacking None raises TypeError.
PumpUnpack(e) ==
    /\ pc[e] = "p_unpack"
    /\ alive[e]
    /\ IF ret[e].tag # "tuple"
       THEN /\ pc' = [pc EXCEPT ![e] = "raised"]
            /\ exc' = [exc EXCEPT ![e] = "TypeError"]
       ELSE /\ pc' = [pc EXCEPT ![e] =
                        IF e = "server"
                        THEN (IF ret[e].ok THEN "p_send" ELSE "p_test")
                        ELSE (IF ret[e].ok THEN "p_test" ELSE "idle")]
            /\ UNCHANGED exc
    /\ UNCHANGED <<config, alive, caller, ret, last, recvv, netv, connv>>


---------------------------------------------------------------------------
(* Specifications *)

Timeouts == {0, Timeout}

\* State of the two objects after construction, lines 12-26, 163 and 235.
Fresh ==
    /\ alive = [e \in Endpoints |-> TRUE]
    /\ exc = [e \in Endpoints |-> "none"]
    /\ pc = [e \in Endpoints |-> "idle"]
    /\ caller = [e \in Endpoints |-> "app"]
    /\ show = [e \in Endpoints |-> TRUE]
    /\ data = [e \in Endpoints |-> <<>>]
    /\ msg_size = [e \in Endpoints |-> 0]
    /\ ret = [e \in Endpoints |-> NoneVal]
    /\ last = [e \in Endpoints |-> "none"]
    /\ last_attempt = [e \in Endpoints |-> "none"]
    /\ consumed = [e \in Endpoints |-> 0]
    /\ nrecv = [e \in Endpoints |-> 0]
    /\ inbox = [e \in Endpoints |-> <<>>]
    /\ eof = [e \in Endpoints |-> FALSE]
    /\ sent = [e \in Endpoints |-> <<>>]
    /\ timed_out = [e \in Endpoints |-> FALSE]
    /\ timeout_arg = [e \in Endpoints |-> 0]
    /\ depth = [e \in Endpoints |-> 0]
    /\ attempts = [e \in Endpoints |-> 0]
    /\ sleeps = [e \in Endpoints |-> 0]
    /\ ncalls = [e \in Endpoints |-> 0]
    /\ ended_timed_out = [e \in Endpoints |-> FALSE]
    /\ closes = [e \in Endpoints |-> <<>>]
    /\ balance = [e \in Endpoints |-> 0]
    /\ backlog = 0

\* A Server and a Client, constructed with the default arguments, neither
\* connected.
Constructed ==
    /\ Fresh
    /\ capture_video = [e \in Endpoints |-> TRUE]
    /\ sock_timeout = [e \in Endpoints |-> 0]
    /\ conn = [e \in Endpoints |-> FALSE]
    /\ listener = "fresh"

Init ==
    /\ Constructed
    /\ role = [e \in Endpoints |-> "setup"]
    /\ screen_resolution = [e \in Endpoints |-> Res640]

InitClose ==
    /\ Constructed
    /\ role = [e \in Endpoints |-> "closing"]
    /\ screen_resolution = [e \in Endpoints |-> Res640]

InitHappy ==
    /\ Constructed
    /\ role = [e \in Endpoints |-> "happy"]
    /\ screen_resolution \in [Endpoints -> {Res640, FULLSCREEN}]

\* The state after Server.connect and Client.connect have both succeeded:
\* the server accepted the client's connection.
Established ==
    /\ Fresh
    /\ sock_timeout \in {[server |-> 0, client |-> t] : t \in Timeouts}
    /\ conn = [e \in Endpoints |-> TRUE]
    /\ listener = "listening"

\* One endpoint writes frames, the other reads them.
InitFrame ==
    /\ Established
    /\ role \in {[server |-> "writer", client |-> "reader"],
                 [server |-> "reader", client |-> "writer"]}
    /\ capture_video = [e \in Endpoints |-> TRUE]
    /\ screen_resolution \in {[e \in Endpoints |-> IF role[e] = "reader" THEN r ELSE Res640] :
                                r \in {Res640, FULLSCREEN}}

\* One endpoint writes a single frame, the other reads.
InitDecode ==
    /\ Established
    /\ role \in {[server |-> "single", client |-> "reader"],
                 [server |-> "reader", client |-> "single"]}
    /\ capture_video = [e \in Endpoints |-> TRUE]
    /\ screen_resolution \in {[e \in Endpoints |-> IF role[e] = "reader" THEN r ELSE Res640] :
                                r \in {Res640, FULLSCREEN}}

\* Both endpoints run their start() loop, over an established connection
\* or without having connected.
InitPump ==
    /\ \/ Established
       \/ /\ Fresh
          /\ sock_timeout = [e \in Endpoints |-> 0]
          /\ conn = [e \in Endpoints |-> FALSE]
          /\ listener = "fresh"
    /\ role = [e \in Endpoints |-> "pump"]
    /\ capture_video \in [Endpoints -> BOOLEAN]
    /\ screen_resolution = [e \in Endpoints |-> Res640]

Connecting(e) ==
    \/ \E t \in Timeouts : AppConnect(e, t)
    \/ ConnectBegin(e)
    \/ ConnectSleep(e)

Calls(e) ==
    \/ \E frame \in CamFrames \cup {NoneVal} : AppSend(e, frame)
    \/ \E sh \in BOOLEAN : AppReceive(e, sh)
    \/ AppUnpack(e)

Pump(e) ==
    \/ AppStart(e)
    \/ PumpTest(e)
    \/ PumpSend(e)
    \/ PumpRecv(e)
    \/ PumpUnpack(e)

Next ==
    \/ \E e \in Endpoints : Connecting(e)
    \/ ServerAccept
    \/ ClientDial

NextHappy ==
    \/ \E e \in Endpoints : Connecting(e) \/ Calls(e) \/ Receive(e)
    \/ ServerAccept
    \/ ClientDial

NextFrame == \E e \in Endpoints : Calls(e) \/ Receive(e) \/ Exit(e)

NextPump == \E e \in Endpoints : Pump(e) \/ Receive(e) \/ Exit(e)

NextClose ==
    \/ \E e \in Endpoints : Connecting(e) \/ AppClose(e)
    \/ ServerAccept
    \/ ClientDial

\* Connection establishment.
Spec == Init /\ [][Next]_vars

\* Connection establishment and close().
SpecClose == InitClose /\ [][NextClose]_vars

\* The happy path: connect(timeout=0) on both endpoints, then one frame
\* from the client to the server.
SpecHappy == InitHappy /\ [][NextHappy]_vars

SpecFrame == InitFrame /\ [][NextFrame]_vars

\* The framing scenario with a single message on the stream.
SpecDecode == InitDecode /\ [][NextFrame]_vars

SpecPump == InitPump /\ [][NextPump]_vars

\* Each endpoint is a running thread: a step of a call in progress is
\* eventually taken.  What the application calls, and when a process ends,
\* is not constrained.
FairSpecHappy ==
    /\ SpecHappy
    /\ \A e \in Endpoints : WF_vars(ConnectBegin(e) \/ ConnectSleep(e) \/ Receive(e))
    /\ WF_vars(ServerAccept)
    /\ WF_vars(ClientDial)


---------------------------------------------------------------------------
(* Properties *)

ConnectPcs == {"c_begin", "c_accept", "c_dial", "c_sleep"}

\* The value receive() returns when it hands back a frame: line 109-111.
Shown(e, frame) == IF show[e] THEN Resize(frame, screen_resolution[e]) ELSE frame

\* A sendall call wrote its whole message.
Complete(entry) == ~entry.raised /\ entry.n = Len(Message(entry.frame))

\* C1: whenever receive() has returned, the value is a two-element result:
\* (True, frame), or (False, None) for every failure.
C1_ReceiveReturnsPair ==
    \A e \in Endpoints :
        pc[e] \in {"a_unpack", "p_unpack"} =>
            /\ ret[e].tag = "tuple"
            /\ ret[e].ok \/ ret[e] = Pair(FALSE, NoneVal)

\* C2: once the peer has closed the stream and every byte it wrote has been
\* taken, a receive() in progress ends, whatever part of a message arrived
\* before the close: it has a step that moves it on.  (Where it has none,
\* each further recv returns b"" and leaves the call where it is, forever.)
C2_ReceiveTerminatesAfterClose ==
    \A e \in Endpoints :
        (alive[e] /\ InReceive(e) /\ eof[e] /\ inbox[e] = <<>>) =>
            ENABLED <<Receive(e)>>_vars

\* C3: with two messages written back-to-back and no timeout on the reading
\* socket, the first receive() takes exactly 8 + N1 bytes from the socket and
\* the second returns the second message's frame.
C3_FramingExactness ==
    \A r \in Endpoints :
        LET w == Peer(r)
        IN  ( /\ role[r] = "reader" /\ alive[r]
              /\ IoTimeout(r) = 0
              /\ Len(sent[w]) = 2
              /\ Complete(sent[w][1]) /\ Complete(sent[w][2])
              /\ pc[r] = "a_unpack" /\ show[r] = FALSE )
            => /\ nrecv[r] = 1 =>
                    consumed[r] = HeaderLen + Len(Dumps(sent[w][1].frame))
               /\ nrecv[r] = 2 => ret[r] = Pair(TRUE, sent[w][2].frame)

\* C4: a connect call with timeout > 0 whose attempt failed made exactly one
\* attempt, slept never, set timed_out and has returned to its caller.
C4_TimeoutModeNoRetry ==
    \A e \in Endpoints :
        (timeout_arg[e] > 0 /\ last_attempt[e] = "failed") =>
            /\ attempts[e] = 1
            /\ sleeps[e] = 0
            /\ depth[e] = 0
            /\ timed_out[e]
            /\ pc[e] = "idle" /\ last[e] = "connect" /\ ret[e] = NoneVal

\* Both endpoints have made a connect call with timeout > 0 that failed and
\* returned.
C4_Witness ==
    \A e \in Endpoints :
        /\ timeout_arg[e] > 0 /\ last_attempt[e] = "failed"
        /\ pc[e] = "idle" /\ last[e] = "connect"

\* C5: a connect call with timeout == 0 whose latest attempt failed is still
\* trying, after any number of failures: it has neither returned nor raised.
C5_BlockingModeRetriesForever ==
    \A e \in Endpoints :
        (ncalls[e] > 0 /\ timeout_arg[e] = 0 /\ last_attempt[e] = "failed") =>
            pc[e] \in ConnectPcs

\* The endpoint runs its start() loop and waits in receive() for bytes that
\* are not there, with no timeout to end the wait.
Blocked(e) ==
    /\ alive[e] /\ conn[e] /\ caller[e] = "start"
    /\ pc[e] \in {"r_hdr", "r_body"}
    /\ inbox[e] = <<>> /\ ~eof[e]
    /\ IoTimeout(e) = 0

\* C6: the two start() loops of one open connection are never both blocked
\* in receive() with no bytes in flight in either direction.
C6_NoDuplexDeadlock == ~(Blocked("server") /\ Blocked("client"))

\* The last receive() of the endpoint's start() loop failed.
PumpRecvFailed(e) ==
    /\ role[e] = "pump" /\ caller[e] = "start" /\ alive[e]
    /\ last[e] = "receive"
    /\ ~(ret[e].tag = "tuple" /\ ret[e].ok)

\* C7: when a receive fails in Client.start, the loop exits: start returns
\* to its caller, with no further send or receive.
C7_ClientPumpExits ==
    PumpRecvFailed("client") =>
        pc["client"] \in {"p_unpack", "idle"} /\ exc["client"] = "none"

\* C8: when a receive fails in Server.start, nothing is sent and the loop
\* goes on to its next receive.
C8_ServerPumpPersists ==
    PumpRecvFailed("server") =>
        pc["server"] \in {"p_unpack", "p_test", "p_recv"} /\ exc["server"] = "none"

\* C9: with one connect(timeout=0) call per endpoint, in either start
\* order, neither call ends its retries by raising; once the server listens
\* while the client is in its call, both calls return with the connection established;
\* and what the server's receive then returns is (True, frame) for the frame
\* the client sent.
C9_HappyPath ==
    /\ []( (\A e \in Endpoints : ncalls[e] = 1 /\ timeout_arg[e] = 0)
           => \A e \in Endpoints : exc[e] # "RecursionError" )
    /\ ( /\ \A e \in Endpoints :
               ncalls[e] = 1 /\ timeout_arg[e] = 0 /\ pc[e] \in ConnectPcs
         /\ listener = "listening" )
       ~> ( \A e \in Endpoints : conn[e] /\ last_attempt[e] = "ok" )
    /\ []( pc["server"] = "a_unpack"
           => /\ Len(sent["client"]) = 1
              /\ ret["server"] =
                    Pair(TRUE, Shown("server", sent["client"][1].frame)) )

\* C10: no exception escapes send(), it returns None whether or not it
\* wrote, and the start() loop goes on from it as after a send that wrote.
C10_SendFireAndForget ==
    \A e \in Endpoints :
        /\ exc[e] # "SendError"
        /\ last[e] = "send" =>
              /\ ret[e] = NoneVal
              /\ alive[e] =>
                   pc[e] \in (IF e = "server" THEN {"p_test", "p_recv"} ELSE {"p_recv"})

\* Client.start went on to its receive after a send whose sendall raised
\* with the message cut part-way.
C10_Witness ==
    /\ role["client"] = "pump" /\ last["client"] = "send"
    /\ Len(sent["client"]) = 1
    /\ sent["client"][1].raised /\ sent["client"][1].n > 0
    /\ pc["client"] = "p_recv"

\* C11: after close() on a connected Server or Client, the socket that
\* send/receive use is closed and is_connected() returns False.
C11_CloseTearsDown ==
    \A e \in Endpoints :
        (alive[e] /\ closes[e] # <<>> /\ closes[e][1].connected) =>
            /\ ~conn[e]
            /\ IsConnected(e) = "False"

\* C12: two close() calls in a row raise nothing, and the second leaves the
\* endpoint's socket and connection as the first left them.
C12_CloseIdempotent ==
    \A e \in Endpoints :
        (Len(closes[e]) = 2 /\ closes[e][2].in_a_row) =>
            /\ closes[e][1].raised = "none"
            /\ closes[e][2].raised = "none"
            /\ closes[e][2].conn = closes[e][1].conn
            /\ closes[e][2].socket = closes[e][1].socket

\* C13: a bind failure in a Server.connect call made with timeout > 0 does
\* not reach the caller; a bind failure is raised only with timeout == 0.
C13_BindFailureContained ==
    (pc["server"] = "raised" /\ exc["server"] = "OSError") =>
        timeout_arg["server"] = 0

\* C14: once a connect call has returned, is_connected() returns True if
\* the accept/dial succeeded and False, without raising, if the endpoint
\* has no connection.
C14_IsConnectedReflects ==
    \A e \in Endpoints :
        (alive[e] /\ pc[e] = "idle" /\ last[e] = "connect") =>
            IsConnected(e) = (IF conn[e] THEN "True" ELSE "False")

C16_WireWellFormed ==
    \A e \in Endpoints :
        \A i, j \in 1..Len(sent[e]) :
            ( /\ i < j
              /\ sent[e][i].n > 0
              /\ sent[e][i].n < Len(Message(sent[e][i].frame)) )
            => sent[e][j].n = 0

\* C17: on an established connection receive() waits without timeout: a
\* receive() that got no byte from a peer that has not closed has not
\* failed.
C17_TimeoutScopedToSetup ==
    \A e \in Endpoints :
        ( /\ alive[e] /\ conn[e] /\ ~eof[e]
          /\ pc[e] = "a_unpack" /\ consumed[e] = 0 )
        => ret[e] # RecvExcept

\* C18: a Server.connect call made after a call that ended timed out skips
\* bind: it goes from its entry to accept on the socket that is bound and
\* listening already, and no bind raises.
C18_RebindSkipped ==
    [][ ( /\ pc["server"] = "c_begin"
          /\ pc'["server"] # "c_begin"
          /\ ended_timed_out["server"] )
        => /\ pc'["server"] = "c_accept"
           /\ listener = "listening" /\ listener' = "listening"
           /\ exc'["server"] = exc["server"] ]_vars

\* The server's second connect call, made after one that ended timed out,
\* waits in accept without having raised.
C18_Witness ==
    /\ ncalls["server"] = 2 /\ ended_timed_out["server"]
    /\ pc["server"] = "c_accept" /\ attempts["server"] = 0
    /\ exc["server"] = "none" /\ listener = "listening"

\* C19: once a connect call has ended with a successful accept or dial, the
\* endpoint is connected and its timed_out flag is not set.
C19_ConnectedNotTimedOut ==
    \A e \in Endpoints :
        (pc[e] = "idle" /\ last[e] = "connect" /\ last_attempt[e] = "ok") =>
            /\ conn[e]
            /\ ~timed_out[e]

\* The frames send() puts on the wire: camera frames resized to (640, 480).
Sendable == {Resize(cam, Res640) : cam \in CamFrames}

\* The messages send() can write, and: the bytes queued for e are a
\* contiguous part of one of them.
Messages == {Message(f) : f \in Sendable}

OneInFlight(e) ==
    \E m \in Messages :
        \E i \in 1..(Len(m) + 1) :
            \E j \in 0..Len(m) :
                inbox[e] = SubSeq(m, i, j)

\* C20: with the two start() loops on one connection, at most one message
\* is in flight in each direction; the client has sent at most one message
\* more than it has received frames, and the server sends only after a
\* receive that returned a frame since its previous send.
C20_LockStep ==
    /\ \A e \in Endpoints : OneInFlight(e)
    /\ balance["client"] \in {0, 1}
    /\ balance["server"] \in {-1, 0}

\* The server has answered the client's first frame and the client's second
\* message is on its way to the server.
C20_Witness ==
    /\ \A e \in Endpoints : alive[e] /\ conn[e] /\ caller[e] = "start"
    /\ Len(sent["server"]) = 1 /\ Complete(sent["server"][1])
    /\ balance["server"] = 0 /\ balance["client"] = 1
    /\ inbox["server"] # <<>>

=============================================================================
